---- MODULE Spec2Model ----
(***************************************************************************)
(* Pulso Analytics IA: the HTTP service of src/main.py with its session    *)
(* gate, OAuth callback, access policy, dataset registry and the           *)
(* load -> generate -> execute -> explain pipeline.                        *)
(*                                                                         *)
(* Text that the code inspects character by character (emails, the         *)
(* allowed domain) is a sequence of one-character strings.  Text that the  *)
(* code only passes around or embeds (ids, error texts, snippets) is an    *)
(* atom, and a formatted answer is the sequence of the pieces the f-string *)
(* concatenates.                                                           *)
(***************************************************************************)
EXTENDS Integers, Sequences, FiniteSets, TLC

VARIABLES
    ALLOWED_DOMAIN,      \* main.py:135  os.environ.get("ALLOWED_DOMAIN", ...)
    ALLOWED_EMAILS_RAW,  \* main.py:136  the env value, already split on ","
    ENV,                 \* main.py:97
    ENVIRONMENT,         \* main.py:109
    GOOGLE_CLIENT_ID,    \* main.py:132
    GOOGLE_CLIENT_SECRET,\* main.py:133
    started,             \* the startup event has run
    session,             \* request.session of each browser session
    tables_global,       \* main.py:837  the process-wide default table set
    last,                \* the last request handled and what it did
    policyCall,          \* the last direct call of is_email_allowed
    utilCall,            \* the last direct call of a text or preview function
    inflight             \* the requests in progress, each at its own line of its handler

vars == <<ALLOWED_DOMAIN, ALLOWED_EMAILS_RAW, ENV, ENVIRONMENT, GOOGLE_CLIENT_ID,
          GOOGLE_CLIENT_SECRET, started, session, tables_global, last, policyCall, utilCall,
          inflight>>

config == <<ALLOWED_DOMAIN, ALLOWED_EMAILS_RAW, ENV, ENVIRONMENT, GOOGLE_CLIENT_ID,
            GOOGLE_CLIENT_SECRET>>

-----------------------------------------------------------------------------
(* Bounds *)

MaxEmailLen == 4
MaxTextLen == 3
MaxChoices == 2
MaxQueryLen == 2
MaxRows == 2
MaxLoads == 3
MaxChunks == 4

-----------------------------------------------------------------------------
(* Python values *)

None == "None"

\* `not x` for an optional atom: None and the empty string are both falsy.
Falsy(x) == x \in {None, ""}

Range(f) == {f[i] : i \in DOMAIN f}

-----------------------------------------------------------------------------
(* Character strings *)

EmailChars == {"a", "A", "@", "p", "P", "o"}

\* Characters outside ASCII are written by code point: U+00C1 and U+00E1 are
\* A and a with acute accent, U+0301 the combining acute accent, U+2122 the
\* trade mark sign (a symbol with no lower-case form), U+00A0 the no-break
\* space.
\* str.lower() on one character
LowerChar(c) ==
    CASE c = "A" -> "a"
      [] c = "P" -> "p"
      [] c = "O" -> "o"
      [] c = "T" -> "t"
      [] c = "J" -> "j"
      [] c = "S" -> "s"
      [] c = "D" -> "d"
      [] c = "M" -> "m"
      [] c = "U+00C1" -> "U+00E1"
      [] OTHER   -> c

\* str.lower()
Lower(s) == [i \in 1..Len(s) |-> LowerChar(s[i])]

\* str.isspace() on one character
IsSpace(c) == c \in {" ", "U+00A0"}

RECURSIVE StripLeft(_)
StripLeft(s) == IF s # <<>> /\ IsSpace(Head(s)) THEN StripLeft(Tail(s)) ELSE s

RECURSIVE StripRight(_)
StripRight(s) ==
    IF s # <<>> /\ IsSpace(s[Len(s)]) THEN StripRight(SubSeq(s, 1, Len(s) - 1)) ELSE s

\* str.strip()
Strip(s) == StripRight(StripLeft(s))

\* str.endswith(suffix)
EndsWith(s, suffix) ==
    /\ Len(suffix) <= Len(s)
    /\ SubSeq(s, Len(s) - Len(suffix) + 1, Len(s)) = suffix

\* every string over `chars` of length at most n
RECURSIVE StringsUpTo(_, _)
StringsUpTo(chars, n) ==
    IF n = 0 THEN {<<>>}
    ELSE LET shorter == StringsUpTo(chars, n - 1)
         IN  shorter \cup {Append(s, c) : s \in shorter, c \in chars}

-----------------------------------------------------------------------------
(* Text normalisation: main.py:34-41 *)

\* An optional text: None, or a string.
NoText == [given |-> FALSE, text |-> <<>>]
Text(s) == [given |-> TRUE, text |-> s]

\* unicodedata.normalize("NFKD", c) for one character
NFKDChar(c) ==
    CASE c = "U+00E1" -> <<"a", "U+0301">>
      [] c = "U+00C1" -> <<"A", "U+0301">>
      [] c = "U+2122" -> <<"T", "M">>
      [] c = "U+00A0" -> <<" ">>
      [] OTHER        -> <<c>>

RECURSIVE NFKD(_)
NFKD(s) == IF s = <<>> THEN <<>> ELSE NFKDChar(Head(s)) \o NFKD(Tail(s))

\* unicodedata.combining(c) is not zero
Combining(c) == c = "U+0301"

\* c.isupper()
IsUpper(c) == c \in {"A", "P", "O", "T", "M", "J", "S", "D", "U+00C1"}

RECURSIVE DropCombining(_)
DropCombining(s) ==
    IF s = <<>> THEN <<>>
    ELSE IF Combining(Head(s)) THEN DropCombining(Tail(s))
    ELSE <<Head(s)>> \o DropCombining(Tail(s))

\* " ".join(s.split()): the words of s, one space between them
RECURSIVE JoinSplit(_)
JoinSplit(s) ==
    LET t == StripLeft(s)
    IN  IF t = <<>> THEN <<>>
        ELSE IF Len(t) >= 2 /\ IsSpace(t[2])
        THEN LET rest == JoinSplit(Tail(t))
             IN  IF rest = <<>> THEN <<t[1]>> ELSE <<t[1], " ">> \o rest
        ELSE <<t[1]>> \o JoinSplit(Tail(t))

\* _norm_text(s), s an optional text
norm_text(o) ==
    IF ~o.given THEN <<>>
    ELSE JoinSplit(DropCombining(NFKD(Lower(Strip(o.text)))))

-----------------------------------------------------------------------------
(* Fuzzy matching: main.py:44-65, over difflib.get_close_matches *)

\* The characters in code point order, for the comparison of strings.
CharOrder ==
    <<" ", "(", ".", "A", "D", "J", "M", "S", "T", "a", "b", "d", "e", "h", "i", "j", "m",
      "n", "o", "s", "t", "z", "U+00A0", "U+00C1", "U+00E1", "U+0301", "U+2122">>

CodeRank(c) == CHOOSE i \in DOMAIN CharOrder : CharOrder[i] = c

\* x < y for strings
RECURSIVE StrLess(_, _)
StrLess(x, y) ==
    IF y = <<>> THEN FALSE
    ELSE IF x = <<>> THEN TRUE
    ELSE IF Head(x) # Head(y) THEN CodeRank(Head(x)) < CodeRank(Head(y))
    ELSE StrLess(Tail(x), Tail(y))

\* the length of the common run of a from i and b from j, inside a[..ahi]
\* and b[..bhi]
RECURSIVE Run(_, _, _, _, _, _)
Run(a, b, i, j, ahi, bhi) ==
    IF i > ahi \/ j > bhi \/ a[i] # b[j] THEN 0
    ELSE 1 + Run(a, b, i + 1, j + 1, ahi, bhi)

\* SequenceMatcher.find_longest_match: the longest block common to
\* a[alo..ahi] and b[blo..bhi]; of the longest, the one starting first in a
\* and, of those, first in b.  No character is junk (isjunk is None and the
\* popularity heuristic needs 200 characters).
find_longest_match(a, b, alo, ahi, blo, bhi) ==
    LET starts == (alo..ahi) \X (blo..bhi)
        size(p) == Run(a, b, p[1], p[2], ahi, bhi)
        longest == {p \in starts : \A q \in starts : size(q) <= size(p)}
        first == CHOOSE p \in longest :
                    \A q \in longest : p[1] < q[1] \/ (p[1] = q[1] /\ p[2] <= q[2])
    IN  IF starts = {} THEN [i |-> alo, j |-> blo, size |-> 0]
        ELSE [i |-> first[1], j |-> first[2], size |-> size(first)]

\* the characters in the blocks of get_matching_blocks: the longest block,
\* then the same to its left and to its right
RECURSIVE MatchCount(_, _, _, _, _, _)
MatchCount(a, b, alo, ahi, blo, bhi) ==
    LET m == find_longest_match(a, b, alo, ahi, blo, bhi)
    IN  IF m.size = 0 THEN 0
        ELSE m.size + MatchCount(a, b, alo, m.i - 1, blo, m.j - 1)
                    + MatchCount(a, b, m.i + m.size, ahi, m.j + m.size, bhi)

\* SequenceMatcher(a, b).ratio() = 2.0 * matches / (len(a) + len(b)), kept
\* as the pair <<numerator, denominator>>; 1.0 when both are empty
Ratio(a, b) ==
    IF Len(a) + Len(b) = 0 THEN <<1, 1>>
    ELSE <<2 * MatchCount(a, b, 1, Len(a), 1, Len(b)), Len(a) + Len(b)>>

\* r >= pct / 100 and r1 < r2, for ratios
RatioAtLeast(r, pct) == 100 * r[1] >= pct * r[2]
RatioLess(r1, r2) == r1[1] * r2[2] < r2[1] * r1[2]

\* difflib.get_close_matches(word, possibilities, n=1, cutoff): the
\* possibilities scoring at least cutoff against word, of which the largest
\* (score, possibility) pair is returned; seq1 is the possibility, seq2 the
\* word
get_close_matches(word, possibilities, pct) ==
    LET result == {i \in DOMAIN possibilities :
                      RatioAtLeast(Ratio(possibilities[i], word), pct)}
        score(i) == Ratio(possibilities[i], word)
        largest == CHOOSE i \in result :
                      \A k \in result :
                         \/ RatioLess(score(k), score(i))
                         \/ /\ ~RatioLess(score(i), score(k))
                            /\ ~StrLess(possibilities[i], possibilities[k])
    IN  IF result = {} THEN <<>> ELSE <<possibilities[largest]>>

\* norm_list: the distinct non-empty normalised forms, in order of first
\* appearance
RECURSIVE norm_list(_)
norm_list(choices) ==
    IF choices = <<>> THEN <<>>
    ELSE LET before == norm_list(SubSeq(choices, 1, Len(choices) - 1))
             cn == norm_text(Text(choices[Len(choices)]))
         IN  IF cn # <<>> /\ cn \notin Range(before) THEN Append(before, cn) ELSE before

\* norm_map[cn]: the spelling stored for a normalised form, which is the
\* first choice that has it
norm_map_last(cn, choices) ==
    choices[CHOOSE i \in DOMAIN choices :
               /\ norm_text(Text(choices[i])) = cn
               /\ \A k \in DOMAIN choices : norm_text(Text(choices[k])) = cn => k <= i]

norm_map(cn, choices) ==
    choices[CHOOSE i \in DOMAIN choices :
               /\ norm_text(Text(choices[i])) = cn
               /\ \A k \in DOMAIN choices : norm_text(Text(choices[k])) = cn => i <= k]

NoMatch == [found |-> FALSE, value |-> <<>>]

\* best_match(query, choices, cutoff): query an optional text, cutoff in
\* hundredths
best_match(query, choices, pct) ==
    IF ~query.given \/ query.text = <<>> \/ choices = <<>> THEN NoMatch
    ELSE LET qn == norm_text(query)
             matches == get_close_matches(qn, norm_list(choices), pct)
         IN  IF matches = <<>> THEN NoMatch
             ELSE [found |-> TRUE, value |-> norm_map(matches[1], choices)]

-----------------------------------------------------------------------------
(* smart_filter: main.py:68-94 *)

\* A table is given by its column names and, for the one column the filter
\* may look at, the cell of every row: a text, or a missing value (NaN).
Missing == [missing |-> TRUE, text |-> <<>>]
Cell(s) == [missing |-> FALSE, text |-> s]

\* astype(str) on a cell: str(nan) is "nan"
AsText(cell) == IF cell.missing THEN <<"n", "a", "n">> ELSE cell.text

\* re.compile(pat): an opening parenthesis that is never closed is an error
ReCompileFails(pat) == "(" \in Range(pat)

\* re.search(pat, text) for a pattern of literals and ".", which stands for
\* any character
ReSearch(pat, text) ==
    \E off \in 0..(Len(text) - Len(pat)) :
        \A k \in 1..Len(pat) : pat[k] = "." \/ pat[k] = text[off + k]

\* df[mask]: the positions of the rows that a boolean mask, one entry per
\* row, keeps
RECURSIVE Keep(_)
Keep(mask) ==
    IF mask = <<>> THEN <<>>
    ELSE LET before == Keep(SubSeq(mask, 1, Len(mask) - 1))
         IN  IF mask[Len(mask)] THEN Append(before, Len(mask)) ELSE before

AllRows(rows) == [i \in 1..Len(rows) |-> i]

\* df[col].dropna().astype(str).unique().tolist()
RECURSIVE uniques(_)
uniques(rows) ==
    IF rows = <<>> THEN <<>>
    ELSE LET before == uniques(SubSeq(rows, 1, Len(rows) - 1))
             cell == rows[Len(rows)]
         IN  IF ~cell.missing /\ cell.text \notin Range(before)
             THEN Append(before, cell.text) ELSE before

\* smart_filter(df, col, query): the positions of the rows returned, or the
\* exception raised
smart_filter(df, col, query) ==
    LET all == [raises |-> None, rows |-> AllRows(df.rows)]
        qn == norm_text(query)
        series_norm == [i \in DOMAIN df.rows |-> norm_text(Text(AsText(df.rows[i])))]
        mask_contains == [i \in DOMAIN df.rows |-> ReSearch(qn, series_norm[i])]
        hit == Keep(mask_contains)
        bm == best_match(query, uniques(df.rows), 72)
        mask_equal == [i \in DOMAIN df.rows |-> AsText(df.rows[i]) = bm.value]
    IN  IF col \notin df.columns THEN all
        ELSE IF qn = <<>> THEN all
        ELSE IF ReCompileFails(qn) THEN [raises |-> "re.error", rows |-> <<>>]
        ELSE IF hit # <<>> THEN [raises |-> None, rows |-> hit]
        ELSE IF bm.found /\ bm.value # <<>>
        THEN [raises |-> None, rows |-> Keep(mask_equal)]
        ELSE all

-----------------------------------------------------------------------------
(* Access policy: main.py:135-165 *)

\* ALLOWED_EMAILS: strip and lower-case every item of the split env value,
\* dropping the items that strip to nothing.
ALLOWED_EMAILS ==
    {Lower(Strip(ALLOWED_EMAILS_RAW[i])) :
        i \in {j \in DOMAIN ALLOWED_EMAILS_RAW : Strip(ALLOWED_EMAILS_RAW[j]) # <<>>}}

is_email_allowed_always(email) == TRUE

is_email_allowed(email) ==
    LET e == Lower(email)
    IN  IF ~EndsWith(e, <<"@">> \o ALLOWED_DOMAIN) THEN FALSE
        ELSE IF ALLOWED_EMAILS # {} /\ e \notin ALLOWED_EMAILS THEN FALSE
        ELSE TRUE

-----------------------------------------------------------------------------
(* Dataset registry: datasets_config.py *)

\* The module binds DATASETS_SPREADSHEETS three times; each binding is a dict
\* from dataset id to {"name", "drive_file_id"}, here a set of
\* <<id, name, drive_file_id>> entries with one entry per id.
DATASETS_SPREADSHEETS_first ==
    { <<"noi_inmuebles", "Finanzas - noi inmuebles", "1evlA46rpcMJ129Dwj33Eycg64yNwoTi9">>,
      <<"gestion_personal", "Gestion de Personal - gestion personal",
        "13hRSF7BPFbHWZ16sQgRd8ix8JGxp2JkSPirQQ3ij2bA">>,
      <<"operaciones", "Operaciones - operaciones",
        "1uG4Z-EmrKT-KjOW5RKWZt1oCr9EgOn23yFb1-LW-D3M">> }

DATASETS_SPREADSHEETS_second ==
    { <<"test_noi_ia", "Finanzas - TEST NOI IA",
        "1HNAMX0wdOj-Lv5sUydk_rFp6Er5U8P4RSjCcILdOX-4">> }

DATASETS_SPREADSHEETS_third ==
    { <<"gestion_personal", "Personal - gestion_personal",
        "13hRSF7BPFbHWZ16sQgRd8ix8JGxp2JkSPirQQ3ij2bA">> }

\* Executing the module top to bottom: each assignment rebinds the name, so
\* what `from datasets_config import DATASETS_SPREADSHEETS` sees is the value
\* of the last assignment.
ModuleBindings ==
    <<DATASETS_SPREADSHEETS_first, DATASETS_SPREADSHEETS_second,
      DATASETS_SPREADSHEETS_third>>

DATASETS_SPREADSHEETS == ModuleBindings[Len(ModuleBindings)]

\* `dataset_id in DATASETS_SPREADSHEETS`
RegistryKeys == {e[1] : e \in DATASETS_SPREADSHEETS}

\* DATASETS_SPREADSHEETS[dataset_id]
RegistryEntry(dataset_id) == CHOOSE e \in DATASETS_SPREADSHEETS : e[1] = dataset_id

\* dataset ids a request may carry (path parameter or payload.dataset_id)
DatasetIds == {"noi_inmuebles", "gestion_personal", "operaciones", "test_noi_ia", "<x>"}

\* html.escape() on the ids and texts that reach it
HtmlEscape(t) == IF t = "<x>" THEN "&lt;x&gt;" ELSE t

-----------------------------------------------------------------------------
(* Table sets and the cloud loader: data_loader.py:75-105, gdrive_client.py *)

\* A table set is a dict sheet name -> table: a set of <<sheet, table>> pairs.
EmptyTables == {}
DefaultWorkbook == {<<"Ventas", "ventas">>}
Workbooks == { {<<"S1", "t1">>}, {<<"S1", "t2">>, <<"S2", "t3">>} }

\* What the drive side does for one download: the credential may be missing,
\* the storage API may fail, the bytes may not parse, or a workbook arrives.
DriveKinds == {"ok", "no_credential", "storage_error", "parse_error"}
DriveWorkbooks == { {<<"S1", "t2">>, <<"S2", "t3">>} }

DriveErrorText(kind) ==
    CASE kind = "no_credential" -> "Falta la variable de entorno GOOGLE_SERVICE_ACCOUNT_JSON"
      [] kind = "storage_error" -> "HttpError"
      [] kind = "parse_error"   -> "BadZipFile"
      [] OTHER                  -> ""

Loaded(ok, err, tables, downloads) ==
    [ok |-> ok, err |-> err, tables |-> tables, downloads |-> downloads]

\* In data_loader.py the def line of this function (line 75) is indented
\* under the tail of load_tables_for_dataset_id while its docstring and body
\* are one level out; the function is modelled as its body reads.
\* load_tables_from_drive_dataset(dataset_id): a ValueError before any call
\* to the drive client for an id that is no key or an entry without file id;
\* otherwise one download, whose failure propagates, then one table per sheet.
load_tables_from_drive_dataset(dataset_id, drive) ==
    IF dataset_id \notin RegistryKeys
    THEN Loaded(FALSE, <<"Dataset", dataset_id, "no esta configurado en DATASETS_SPREADSHEETS.">>,
                EmptyTables, 0)
    ELSE IF Falsy(RegistryEntry(dataset_id)[3])
    THEN Loaded(FALSE, <<"Dataset", dataset_id, "no tiene drive_file_id configurado.">>,
                EmptyTables, 0)
    ELSE IF drive.kind # "ok"
    THEN Loaded(FALSE, <<DriveErrorText(drive.kind)>>, EmptyTables, 1)
    ELSE Loaded(TRUE, <<>>, drive.workbook, 1)

-----------------------------------------------------------------------------
(* The analysis pipeline: main.py:855-1034 and 1175-1222 / 1240-1285 *)

\* What the model API does for one call: it fails, or it replies.
CallFails == "raise"
ApiErrorText == "APIConnectionError"

\* Replies of the code-generation call (snippet texts), one fenced.
ModelReplies ==
    { "result = (", "result = foo", "exit()", "x = 1", "result = None",
      "result = 42", "result = tables['S1']", "<fence>python result = 42 <fence>",
      "tables.clear(); result = 42", "tables['N'] = 1; result = foo" }

\* generate_pandas_code: the reply with the code fences removed and stripped
StripFences(reply) == IF reply = "<fence>python result = 42 <fence>" THEN "result = 42" ELSE reply

\* exec(code, safe_globals, safe_locals): what running a snippet does.
\*   raises      the class of the exception it raises, or None
\*   isException whether that class derives from Exception (SystemExit does not)
\*   text        str(e)
\*   binds       whether safe_locals has a key "result" afterwards
\*   value       the value bound to it
ExecOutcome(code) ==
    CASE code = "result = (" ->
           [raises |-> "SyntaxError", isException |-> TRUE,
            text |-> "'(' was never closed", binds |-> FALSE, value |-> None]
      [] code \in {"result = foo", "tables['N'] = 1; result = foo"} ->
           [raises |-> "NameError", isException |-> TRUE,
            text |-> "name 'foo' is not defined", binds |-> FALSE, value |-> None]
      [] code = "exit()" ->
           [raises |-> "SystemExit", isException |-> FALSE,
            text |-> "None", binds |-> FALSE, value |-> None]
      [] code = "x = 1" ->
           [raises |-> None, isException |-> FALSE, text |-> "", binds |-> FALSE,
            value |-> None]
      [] code = "result = None" ->
           [raises |-> None, isException |-> FALSE, text |-> "", binds |-> TRUE,
            value |-> None]
      [] code \in {"result = 42", "tables.clear(); result = 42"} ->
           [raises |-> None, isException |-> FALSE, text |-> "", binds |-> TRUE,
            value |-> "42"]
      [] OTHER ->
           [raises |-> None, isException |-> FALSE, text |-> "", binds |-> TRUE,
            value |-> "DataFrame"]

\* what the dict bound to the name tables holds after the snippet ran
SnippetTables(code, tables) ==
    IF code = "tables.clear(); result = 42" THEN EmptyTables
    ELSE IF code = "tables['N'] = 1; result = foo"
    THEN {e \in tables : e[1] # "N"} \cup {<<"N", "1">>}
    ELSE tables

\* safe_locals["tables"] = {name: df.copy() for name, df in tables.items()}
\* (main.py:1187, 1253): a new dict, so what the snippet does to it is not
\* done to the dict the handler holds
TablesBinding_shared(tables) == [shared |-> TRUE, tables |-> tables]

TablesBinding(tables) == [shared |-> FALSE, tables |-> tables]

\* the handler's own dict after a run that bound `binding` for the snippet
TablesAfterExec(binding, run) ==
    IF binding.shared /\ run.execs = 1
    THEN SnippetTables(run.code, binding.tables)
    ELSE binding.tables

\* safe_locals.get("result")
LocalsGetResult(out) == IF out.binds THEN out.value ELSE None

\* preview formatting (1202-1212): the formatted preview, or repr(result)
\* when formatting raises
PreviewText(result, fmtFails) ==
    IF fmtFails THEN "repr(result)"
    ELSE IF result = "DataFrame" THEN "DataFrame (n filas): head(10)"
    ELSE "Resultado (int): 42"

GenErrorText(e) == <<"Error generando codigo:", e>>

ExecErrorText(e, code) ==
    <<"Error ejecutando codigo generado:", e, "Codigo generado:", code>>

NoResultText(code) == <<"No se genero la variable 'result'. Codigo generado:", code>>

ExplainFailureText_no_preview(e, preview_text) ==
    <<"El analisis se ejecuto bien, pero hubo un error al generar la explicacion:", e>>

ExplainFailureText(e, preview_text) ==
    <<"El analisis se ejecuto bien, pero hubo un error al generar la explicacion:", e,
      "Vista previa del resultado:", preview_text>>

ExplanationText == "explicacion del modelo"

\* Inputs of one pipeline run: the code-generation reply, whether preview
\* formatting raises, the explanation reply.
PipelineInputs ==
    {[gen |-> g, fmt |-> f, explain |-> x] :
        g \in ModelReplies \cup {CallFails}, f \in BOOLEAN, x \in {"ok", CallFails}}

\* A run that stopped before the stage that sets a field leaves it as here.
NotRun ==
    [stage |-> None, status |-> 0, propagated |-> FALSE, answer |-> <<>>,
     modelCalls |-> 0, execs |-> 0, genReply |-> None, code |-> None, raises |-> None,
     binds |-> FALSE, preview |-> None, explainReply |-> None, steps |-> <<>>]

\* generate code, execute, preview, explain; `in` is an element of PipelineInputs
Pipeline(in) ==
    LET called == [NotRun EXCEPT !.modelCalls = 1, !.genReply = in.gen,
                                 !.steps = <<"generate">>]
    IN
    IF in.gen = CallFails
    THEN [called EXCEPT !.stage = "gen_failed", !.status = 200,
                        !.answer = GenErrorText(ApiErrorText)]
    ELSE
    LET code == StripFences(in.gen)
        out  == ExecOutcome(code)
        result == LocalsGetResult(out)
        preview_text == PreviewText(result, in.fmt)
        ran == [called EXCEPT !.execs = 1, !.code = code, !.raises = out.raises,
                              !.binds = out.binds, !.steps = <<"generate", "execute">>]
    IN  IF out.raises # None /\ out.isException
        THEN [ran EXCEPT !.stage = "exec_failed", !.status = 200,
                         !.answer = ExecErrorText(out.text, code)]
        ELSE IF out.raises # None
        THEN [ran EXCEPT !.stage = "exec_propagated", !.status = 500, !.propagated = TRUE]
        ELSE IF result = None
        THEN [ran EXCEPT !.stage = "no_result", !.status = 200, !.answer = NoResultText(code)]
        ELSE LET asked == [ran EXCEPT !.preview = preview_text, !.modelCalls = 2,
                                      !.explainReply = in.explain,
                                      !.steps = <<"generate", "execute", "explain">>]
             IN  IF in.explain = CallFails
                 THEN [asked EXCEPT !.stage = "explain_failed", !.status = 200,
                          !.answer = ExplainFailureText(ApiErrorText, preview_text)]
                 ELSE [asked EXCEPT !.stage = "explained", !.status = 200,
                          !.answer = <<ExplanationText>>]

\* The inputs a run consumes: a run that stops before the preview reads
\* neither in.fmt nor in.explain, so one representative stands for them.
ReachesPreview(g) ==
    /\ g # CallFails
    /\ ExecOutcome(StripFences(g)).raises = None
    /\ LocalsGetResult(ExecOutcome(StripFences(g))) # None

ConsumedInputs ==
    {in \in PipelineInputs : ReachesPreview(in.gen) \/ (~in.fmt /\ in.explain = "ok")}

-----------------------------------------------------------------------------
(* Sessions and the authentication gate: main.py:168-174 *)

Sessions == {"s1", "s2"}

\* request.session as the handlers read it: .get() of an absent key is falsy,
\* so the cleared session holds the falsy value of every key.
ClearedSession == [authenticated |-> FALSE, user_email |-> <<>>, user_name |-> None]

\* require_auth passes (TRUE) or raises HTTPException(401) (FALSE)
require_auth_always(sess) == TRUE

require_auth(sess) == sess.authenticated

\* IS_PROD = ENV == "prod"
IS_PROD_never == FALSE

IS_PROD == ENV = "prod"

-----------------------------------------------------------------------------
(* Responses *)

\* What one request did.  Fields a handler does not set keep these values.
NoCallback ==
    [error |-> None, code |-> None, token_status |-> 0, access_token |-> None,
     userinfo_status |-> 0, email |-> <<>>, name |-> None]

Request(route, s, sess, tg) ==
    [route |-> route, sess |-> s, sessBefore |-> sess, tgBefore |-> tg,
     status |-> 0, location |-> None, answer |-> <<>>, trace |-> <<>>,
     loads |-> 0, downloads |-> 0, modelCalls |-> 0, execs |-> 0,
     propagated |-> FALSE, dataset_id |-> None, driveKind |-> None, stage |-> None,
     genReply |-> None, code |-> None, raises |-> None, binds |-> FALSE,
     preview |-> None, explainReply |-> None, cb |-> NoCallback,
     readsGlobal |-> FALSE, tables |-> EmptyTables, startupLoad |-> None,
     steps |-> <<>>, tablesAfter |-> EmptyTables]

\* HTTPException(status_code=401) raised by the Depends(require_auth) gate
Unauthorized(req) == [req EXCEPT !.status = 401, !.stage = "unauthorized"]

\* the fields of a pipeline run, merged into the response
WithRun(req, run) ==
    [req EXCEPT !.status = run.status, !.propagated = run.propagated,
                !.answer = run.answer, !.modelCalls = run.modelCalls,
                !.execs = run.execs, !.stage = run.stage, !.genReply = run.genReply,
                !.code = run.code, !.raises = run.raises, !.binds = run.binds,
                !.preview = run.preview, !.explainReply = run.explainReply,
                !.steps = req.steps \o run.steps]

\* wrap_with_trace_html: the answer followed by the escaped trace footer
wrap_with_trace_html(req, dataset_id, dataset_name, user_email) ==
    [req EXCEPT !.trace =
        <<[dataset_name |-> HtmlEscape(dataset_name), dataset_id |-> HtmlEscape(dataset_id),
           user_email |-> IF user_email = <<>> THEN <<"N", "/", "D">> ELSE user_email]>>]

-----------------------------------------------------------------------------
(* The application and its route table: main.py:109-114, 336-338 *)

\* docs_url="/docs" if ENVIRONMENT != "production" else None
docs_url == IF ENVIRONMENT # "production" THEN "/docs" ELSE None

\* FastAPI(docs_url=..., redoc_url=None): the constructor registers the
\* schema route and, when docs_url is set, the interactive documentation
\* page at docs_url with its OAuth2 redirect page; redoc_url=None registers
\* no second documentation page.
FrameworkRoutes ==
    <<[path |-> "/openapi.json", endpoint |-> "openapi"]>>
        \o (IF docs_url # None
            THEN <<[path |-> docs_url, endpoint |-> "swagger_ui_html"],
                   [path |-> "/docs/oauth2-redirect", endpoint |-> "swagger_ui_redirect"]>>
            ELSE <<>>)

\* the GET routes the decorators of main.py add, in file order, after the
\* constructor has run
DeclaredRoutes ==
    <<[path |-> "/auth/google/login", endpoint |-> "google_login"],
      [path |-> "/auth/google/callback", endpoint |-> "google_callback"],
      [path |-> "/logout", endpoint |-> "logout"],
      [path |-> "/debug/drive-dataset/{dataset_id}", endpoint |-> "debug_drive_dataset"],
      [path |-> "/docs", endpoint |-> "pulso_analytics_ui"],
      [path |-> "/", endpoint |-> "root"],
      [path |-> "/health", endpoint |-> "health"],
      [path |-> "/datasets", endpoint |-> "list_datasets"]>>

AppRoutes == FrameworkRoutes \o DeclaredRoutes

\* the router answers with the first route of the table that matches
RouteFor(path) ==
    LET matching == {i \in DOMAIN AppRoutes : AppRoutes[i].path = path}
    IN  AppRoutes[CHOOSE i \in matching : \A j \in matching : i <= j].endpoint

-----------------------------------------------------------------------------
(* /ask/{dataset_id}: main.py:1225-1297 *)

LoadFailureText_no_id(dataset_id, e) == <<"No se pudo cargar el dataset", ":">> \o e

LoadFailureText(dataset_id, e) == <<"No se pudo cargar el dataset", dataset_id, ":">> \o e

\* DATASETS_SPREADSHEETS.get(dataset_id, {}).get("name", dataset_id)
DatasetName(dataset_id) ==
    IF dataset_id \in RegistryKeys THEN RegistryEntry(dataset_id)[2] ELSE dataset_id

\* the body of ask_on_dataset, after the gate; req is the request so far
ask_on_dataset(req, dataset_id, drive, in) ==
    LET loaded == load_tables_from_drive_dataset(dataset_id, drive)
        r0 == [req EXCEPT !.dataset_id = dataset_id, !.loads = 1,
                          !.downloads = loaded.downloads,
                          !.driveKind = IF loaded.downloads = 1 THEN drive.kind ELSE None,
                          !.steps = <<"load">>]
    IN  IF ~loaded.ok
        THEN [r0 EXCEPT !.status = 200, !.stage = "load_failed",
                        !.answer = LoadFailureText(dataset_id, loaded.err)]
        ELSE LET run == Pipeline(in)
                 binding == TablesBinding(loaded.tables)
                 r1 == [WithRun(r0, run) EXCEPT !.tables = binding.tables,
                                                !.tablesAfter = TablesAfterExec(binding, run)]
             IN  IF r1.stage \in {"explained", "explain_failed"}
                 THEN wrap_with_trace_html(r1, dataset_id, DatasetName(dataset_id),
                                           req.sessBefore.user_email)
                 ELSE r1

\* The drive and pipeline inputs a request for dataset_id consumes.
DriveInputs ==
    {[kind |-> k, workbook |-> EmptyTables] : k \in DriveKinds \ {"ok"}}
        \cup {[kind |-> "ok", workbook |-> w] : w \in DriveWorkbooks}

NoDrive == [kind |-> "storage_error", workbook |-> EmptyTables]
NoRun == [gen |-> CallFails, fmt |-> FALSE, explain |-> "ok"]

AskInputs(dataset_id) ==
    IF dataset_id \notin RegistryKeys \/ Falsy(RegistryEntry(dataset_id)[3])
    THEN {<<NoDrive, NoRun>>}
    ELSE {<<d, NoRun>> : d \in {x \in DriveInputs : x.kind # "ok"}}
            \cup {<<d, in>> : d \in {x \in DriveInputs : x.kind = "ok"}, in \in ConsumedInputs}

-----------------------------------------------------------------------------
(* /chat: main.py:1300-1335 *)

error_card_html(title, bullets, trace) ==
    <<HtmlEscape(title)>> \o [i \in 1..Len(bullets) |-> HtmlEscape(bullets[i])]
        \o (IF Falsy(trace) THEN <<>> ELSE <<HtmlEscape(trace)>>)

\* the two validations of chat: which branch a payload.dataset_id takes
ChatGate_no_registry_check(dataset_id) ==
    IF Falsy(dataset_id) THEN "no_dataset" ELSE "delegate"

ChatGate(dataset_id) ==
    IF Falsy(dataset_id) THEN "no_dataset"
    ELSE IF dataset_id \notin RegistryKeys THEN "invalid"
    ELSE "delegate"

chat(req, dataset_id, drive, in) ==
    LET gate == ChatGate(dataset_id)
        r0 == [req EXCEPT !.dataset_id = dataset_id]
    IN  IF gate = "no_dataset"
        THEN [r0 EXCEPT !.status = 200, !.stage = "no_dataset",
                 !.answer = error_card_html("No se selecciono un dataset",
                     <<"Selecciona un dataset en el menu desplegable (barra superior).",
                       "Despues vuelve a enviar tu consulta.">>,
                     "Fuente (dataset): no seleccionado")]
        ELSE IF gate = "invalid"
        THEN [r0 EXCEPT !.status = 200, !.stage = "invalid_dataset",
                 !.answer = error_card_html("Dataset invalido",
                     <<"El dataset_id recibido no existe o no esta autorizado:", dataset_id,
                       "Selecciona un dataset valido desde el selector.">>,
                     dataset_id)]
        ELSE ask_on_dataset(r0, dataset_id, drive, in)

-----------------------------------------------------------------------------
(* OAuth routes: main.py:180-293 *)

\* What reaches the callback: the query parameters, then the token endpoint's
\* response to the exchange, then the userinfo endpoint's response.  A
\* response exists only if the request for it was made.
Emails ==
    { <<"a", "@", "p">>, <<"A", "@", "P">>, <<"a", "@", "o">> }

QueryInputs == {[error |-> e, code |-> c] : e \in {None, "access_denied"}, c \in {None, "", "c1"}}
TokenInputs == {[token_status |-> st, access_token |-> t] : st \in {200, 400}, t \in {None, "tok"}}
UserinfoInputs ==
    {[userinfo_status |-> 401, email |-> <<>>, name |-> None]}
        \cup {[userinfo_status |-> 200, email |-> e, name |-> "Ana"] : e \in Emails \cup {<<>>}}

Callback(q, t, u) ==
    [error |-> q.error, code |-> q.code, token_status |-> t.token_status,
     access_token |-> t.access_token, userinfo_status |-> u.userinfo_status,
     email |-> u.email, name |-> u.name]

NoToken == [token_status |-> 0, access_token |-> None]
NoUserinfo == [userinfo_status |-> 0, email |-> <<>>, name |-> None]

CallbackInputs ==
    {Callback(q, NoToken, NoUserinfo) : q \in {x \in QueryInputs : ~Falsy(x.error) \/ Falsy(x.code)}}
    \cup {Callback(q, t, NoUserinfo) :
            q \in {x \in QueryInputs : Falsy(x.error) /\ ~Falsy(x.code)},
            t \in {y \in TokenInputs : y.token_status # 200 \/ Falsy(y.access_token)}}
    \cup {Callback(q, t, u) :
            q \in {x \in QueryInputs : Falsy(x.error) /\ ~Falsy(x.code)},
            t \in {y \in TokenInputs : y.token_status = 200 /\ ~Falsy(y.access_token)},
            u \in UserinfoInputs}

Failure(req, status, answer) == [req EXCEPT !.status = status, !.answer = answer]

\* google_callback from the token exchange on (main.py:235-284): the
\* response, and the session it leaves
google_callback_exchange(req, sess, cb) ==
    IF cb.token_status # 200
    THEN [resp |-> Failure(req, 500, <<"Error al obtener tokens de Google:">>), session |-> sess]
    ELSE IF Falsy(cb.access_token)
    THEN [resp |-> Failure(req, 500, <<"No se obtuvo access_token en la respuesta de Google.">>),
          session |-> sess]
    ELSE IF cb.userinfo_status # 200
    THEN [resp |-> Failure(req, 500, <<"Error al obtener informacion del usuario:">>),
          session |-> sess]
    ELSE IF cb.email = <<>>
    THEN [resp |-> Failure(req, 500, <<"No se obtuvo el correo electronico del usuario.">>),
          session |-> sess]
    ELSE IF ~is_email_allowed(cb.email)
    THEN [resp |-> Failure(req, 403,
                      <<"Tu cuenta no esta autorizada para acceder a Pulso Analytics IA.",
                        cb.email>>),
          session |-> sess]
    ELSE [resp |-> [req EXCEPT !.status = 303, !.location = "/"],
          session |-> [authenticated |-> TRUE, user_email |-> cb.email, user_name |-> cb.name]]

google_callback_code_first(req, sess, cb) ==
    IF Falsy(cb.code)
    THEN [resp |-> Failure(req, 400, <<"No se recibio el codigo de autorizacion.">>),
          session |-> sess]
    ELSE IF ~Falsy(cb.error)
    THEN [resp |-> Failure(req, 400, <<"Error de Google OAuth:", cb.error>>), session |-> sess]
    ELSE google_callback_exchange(req, sess, cb)

\* google_callback (main.py:209-284)
google_callback(req, sess, cb) ==
    IF ~Falsy(cb.error)
    THEN [resp |-> Failure(req, 400, <<"Error de Google OAuth:", cb.error>>), session |-> sess]
    ELSE IF Falsy(cb.code)
    THEN [resp |-> Failure(req, 400, <<"No se recibio el codigo de autorizacion.">>),
          session |-> sess]
    ELSE google_callback_exchange(req, sess, cb)

\* request.session.clear()
SessionClear_keep_email(sess) == [sess EXCEPT !.authenticated = FALSE]

SessionClear(sess) == ClearedSession

-----------------------------------------------------------------------------
(* The state machine *)

\* Deployments: the environment the process starts with.
PolicyDomains == { <<"p">>, <<"P">> }
PolicyAllowLists ==
    { << <<>> >>,                                      \* ALLOWED_EMAILS unset: "".split(",")
      << <<" ", "A", "@", "p">>, <<>> >>,              \* " A@p,"
      << <<"a", "@", "p">>, <<"a", "a", "@", "p">> >>  \* "a@p,aa@p"
    }

Deployments ==
    { [domain |-> <<"p">>, raw |-> << <<>> >>, env |-> "local", environment |-> "development",
       client_id |-> "id", client_secret |-> "secret"],
      [domain |-> <<"p">>, raw |-> << <<" ", "A", "@", "p">>, <<>> >>, env |-> "prod",
       environment |-> "production", client_id |-> "id", client_secret |-> "secret"],
      [domain |-> <<"P">>, raw |-> << <<>> >>, env |-> "production",
       environment |-> "development", client_id |-> None, client_secret |-> None] }

NoRequest == Request("none", "s1", ClearedSession, EmptyTables)
NoUtilCall == [fn |-> "none"]
\* No request in progress and no upload made yet.
Slots == {"r1", "r2"}

Idle ==
    [pc |-> "idle", route |-> None, dataset_id |-> None, atStart |-> <<>>,
     drive |-> <<>>, tables |-> <<>>, tested |-> <<>>, described |-> <<>>,
     executed |-> <<>>, gen |-> None, code |-> None, result |-> None,
     explain |-> None, stage |-> None]

NoInflight == [reqs |-> [r \in Slots |-> Idle], uploads |-> 0]

NoPolicyCall == [email |-> <<>>, result |-> FALSE, called |-> FALSE]

InitWith(d) ==
    /\ ALLOWED_DOMAIN = d.domain
    /\ ALLOWED_EMAILS_RAW = d.raw
    /\ ENV = d.env
    /\ ENVIRONMENT = d.environment
    /\ GOOGLE_CLIENT_ID = d.client_id
    /\ GOOGLE_CLIENT_SECRET = d.client_secret
    /\ started = FALSE
    /\ session = [s \in Sessions |-> ClearedSession]
    /\ tables_global = EmptyTables
    /\ last = NoRequest
    /\ policyCall = NoPolicyCall
    /\ utilCall = NoUtilCall
    /\ inflight = NoInflight

Init == \E d \in Deployments : InitWith(d)

\* what startup_event leaves in tables_global: the sheets of the default
\* workbook, or {} from the except branch
StartupTables(ok) == IF ok THEN DefaultWorkbook ELSE EmptyTables

\* startup_event (main.py:840-850): the default workbook loads, or the
\* failure is logged and the table set is left empty
Startup ==
    /\ ~started
    /\ started' = TRUE
    /\ \E ok \in BOOLEAN :
          /\ tables_global' = StartupTables(ok)
          /\ last' = [NoRequest EXCEPT !.route = "startup",
                                       !.startupLoad = IF ok THEN "loaded" ELSE "failed"]
    /\ UNCHANGED <<config, session, policyCall, utilCall, inflight>>

\* GET /auth/google/login (main.py:180-206)
GoogleLogin(s) ==
    /\ started
    /\ LET req == Request("/auth/google/login", s, session[s], tables_global)
       IN  last' = IF Falsy(GOOGLE_CLIENT_ID) \/ Falsy(GOOGLE_CLIENT_SECRET)
                   THEN Failure(req, 500,
                          <<"Error de configuracion: faltan GOOGLE_CLIENT_ID o GOOGLE_CLIENT_SECRET.">>)
                   ELSE [req EXCEPT !.status = 307,
                                    !.location = "https://accounts.google.com/o/oauth2/v2/auth"]
    /\ UNCHANGED <<config, started, session, tables_global, policyCall, utilCall, inflight>>

\* GET /auth/google/callback
GoogleCallback(s) ==
    /\ started
    /\ \E cb \in CallbackInputs :
          LET req == [Request("/auth/google/callback", s, session[s], tables_global)
                        EXCEPT !.cb = cb]
              r == google_callback(req, session[s], cb)
          IN  /\ last' = r.resp
              /\ session' = [session EXCEPT ![s] = r.session]
    /\ UNCHANGED <<config, started, tables_global, policyCall, utilCall, inflight>>

\* GET /logout (main.py:287-293)
Logout(s) ==
    /\ started
    /\ session' = [session EXCEPT ![s] = SessionClear(session[s])]
    /\ last' = [Request("/logout", s, session[s], tables_global)
                  EXCEPT !.status = 303, !.location = "/auth/google/login"]
    /\ UNCHANGED <<config, started, tables_global, policyCall, utilCall, inflight>>

\* GET / (main.py:814-821)
Root(s) ==
    /\ started
    /\ LET req == Request("/", s, session[s], tables_global)
       IN  last' = IF ~session[s].authenticated
                   THEN [req EXCEPT !.status = 303, !.location = "/auth/google/login"]
                   ELSE [req EXCEPT !.status = 200, !.answer = <<"pulso_analytics_ui">>]
    /\ UNCHANGED <<config, started, session, tables_global, policyCall, utilCall, inflight>>

\* GET /docs: answered by the route the table gives for the path; neither
\* the documentation page nor pulso_analytics_ui (main.py:336-812) reads the
\* session
Docs(s) ==
    /\ started
    /\ last' = [Request("/docs", s, session[s], tables_global)
                  EXCEPT !.status = 200, !.stage = RouteFor("/docs"),
                         !.answer = <<RouteFor("/docs")>>]
    /\ UNCHANGED <<config, started, session, tables_global, policyCall, utilCall, inflight>>

\* GET /datasets (main.py:1102-1123): one item per registry entry, no gate
ListDatasets(s) ==
    /\ started
    /\ last' = [Request("/datasets", s, session[s], tables_global)
                  EXCEPT !.status = 200, !.stage = "listed",
                         !.answer = <<{<<k, DatasetName(k), "drive">> : k \in RegistryKeys}>>]
    /\ UNCHANGED <<config, started, session, tables_global, policyCall, utilCall, inflight>>

\* GET /debug/drive-dataset/{dataset_id} (main.py:299-333)
DebugDriveDataset(s) ==
    /\ started
    /\ LET req == Request("/debug/drive-dataset/{dataset_id}", s, session[s], tables_global)
       IN  IF ~require_auth(session[s])
           THEN last' = Unauthorized(req)
           ELSE \E dataset_id \in DatasetIds : \E i \in AskInputs(dataset_id) :
                  LET loaded == load_tables_from_drive_dataset(dataset_id, i[1])
                      r0 == [req EXCEPT !.dataset_id = dataset_id, !.loads = 1,
                                        !.downloads = loaded.downloads,
                                        !.driveKind = IF loaded.downloads = 1 THEN i[1].kind
                                                      ELSE None]
                  IN  /\ i[2] = NoRun
                      /\ last' = IF ~loaded.ok
                                 THEN [r0 EXCEPT !.status = 500, !.stage = "load_failed",
                                                 !.answer = <<"ok: False", "error:">> \o loaded.err]
                                 ELSE [r0 EXCEPT !.status = 200, !.stage = "summary",
                                          !.answer = <<"ok: True", dataset_id, "sheets:",
                                                       {p[1] : p \in loaded.tables}>>]
    /\ UNCHANGED <<config, started, session, tables_global, policyCall, utilCall, inflight>>

\* What an upload carries: a workbook, or bytes pd.read_excel rejects.
UploadInputs == {[ok |-> TRUE, workbook |-> w] : w \in Workbooks}
                    \cup {[ok |-> FALSE, workbook |-> EmptyTables]}

\* tables_global = pd.read_excel(io.BytesIO(contents), sheet_name=None): the
\* name is rebound to the sheets of the upload
UploadedTables_merged(old, workbook) ==
    workbook \cup {p \in old : \A q \in workbook : q[1] # p[1]}

UploadedTables(old, workbook) == workbook

\* POST /upload_excel (main.py:1126-1157)
UploadExcel(s) ==
    /\ started
    /\ LET req == Request("/upload_excel", s, session[s], tables_global)
       IN  IF ~require_auth(session[s])
           THEN last' = Unauthorized(req) /\ UNCHANGED tables_global
           ELSE IF IS_PROD
           THEN /\ last' = [req EXCEPT !.status = 410, !.stage = "disabled",
                              !.answer = <<"Endpoint deshabilitado. Usa datasets desde Google Drive (selector).">>]
                /\ UNCHANGED tables_global
           ELSE \E up \in UploadInputs :
                  IF ~up.ok
                  THEN /\ last' = [req EXCEPT !.status = 500, !.propagated = TRUE,
                                              !.stage = "upload_failed"]
                       /\ UNCHANGED tables_global
                  ELSE /\ tables_global' = UploadedTables(tables_global, up.workbook)
                       /\ last' = [req EXCEPT !.status = 200, !.stage = "uploaded",
                                     !.tables = up.workbook,
                                     !.answer = <<"Archivo cargado. Tablas actualizadas.",
                                                  {p[1] : p \in up.workbook}>>]
    /\ UNCHANGED <<config, started, session, policyCall, utilCall, inflight>>

\* `if not tables_global`: the dict is empty
NoDataLoaded_never(tables) == FALSE

NoDataLoaded(tables) == tables = EmptyTables

\* POST /ask (main.py:1160-1222)
Ask(s) ==
    /\ started
    /\ LET req == Request("/ask", s, session[s], tables_global)
       IN  IF ~require_auth(session[s])
           THEN last' = Unauthorized(req) /\ UNCHANGED tables_global
           ELSE IF IS_PROD
           THEN /\ last' = [req EXCEPT !.status = 200, !.stage = "disabled",
                           !.answer = <<"Este endpoint ya no se usa en produccion. Selecciona un dataset de Google Drive y consulta por /ask/{dataset_id}.">>]
                /\ UNCHANGED tables_global
           ELSE IF NoDataLoaded(tables_global)
           THEN /\ last' = [req EXCEPT !.status = 200, !.stage = "no_data",
                              !.readsGlobal = TRUE,
                              !.answer = <<"No hay datos cargados. Sube un archivo Excel primero.">>]
                /\ UNCHANGED tables_global
           ELSE \E in \in ConsumedInputs :
                  LET run == Pipeline(in)
                      binding == TablesBinding(tables_global)
                  IN  /\ last' = [WithRun(req, run)
                                    EXCEPT !.readsGlobal = TRUE,
                                           !.tables = binding.tables,
                                           !.tablesAfter = TablesAfterExec(binding, run)]
                      /\ tables_global' = TablesAfterExec(binding, run)
    /\ UNCHANGED <<config, started, session, policyCall, utilCall, inflight>>

\* POST /ask/{dataset_id}
AskOnDataset(s) ==
    /\ started
    /\ LET req == Request("/ask/{dataset_id}", s, session[s], tables_global)
       IN  IF ~require_auth(session[s])
           THEN last' = Unauthorized(req)
           ELSE \E dataset_id \in DatasetIds : \E i \in AskInputs(dataset_id) :
                  last' = ask_on_dataset(req, dataset_id, i[1], i[2])
    /\ UNCHANGED <<config, started, session, tables_global, policyCall, utilCall, inflight>>

\* POST /chat
Chat(s) ==
    /\ started
    /\ LET req == Request("/chat", s, session[s], tables_global)
       IN  IF ~require_auth(session[s])
           THEN last' = Unauthorized(req)
           ELSE \/ \E dataset_id \in {None, ""} :
                     last' = chat(req, dataset_id, NoDrive, NoRun)
                \/ \E dataset_id \in DatasetIds : \E i \in AskInputs(dataset_id) :
                     last' = chat(req, dataset_id, i[1], i[2])
    /\ UNCHANGED <<config, started, session, tables_global, policyCall, utilCall, inflight>>

Next ==
    \/ Startup
    \/ \E s \in Sessions : GoogleLogin(s)
    \/ \E s \in Sessions : GoogleCallback(s)
    \/ \E s \in Sessions : Logout(s)
    \/ \E s \in Sessions : Root(s)
    \/ \E s \in Sessions : Docs(s)
    \/ \E s \in Sessions : ListDatasets(s)
    \/ \E s \in Sessions : DebugDriveDataset(s)
    \/ \E s \in Sessions : UploadExcel(s)
    \/ \E s \in Sessions : Ask(s)
    \/ \E s \in Sessions : AskOnDataset(s)
    \/ \E s \in Sessions : Chat(s)

Spec == Init /\ [][Next]_vars

-----------------------------------------------------------------------------
(* The access policy on its own: is_email_allowed over every short email,  *)
(* under every configuration of the domain and the allow-list.             *)

EmailStrings == StringsUpTo(EmailChars, MaxEmailLen)

PolicyInit ==
    \E dom \in PolicyDomains : \E raw \in PolicyAllowLists :
        InitWith([domain |-> dom, raw |-> raw, env |-> "local",
                  environment |-> "development", client_id |-> "id",
                  client_secret |-> "secret"])

IsEmailAllowedCall ==
    /\ ~policyCall.called
    /\ \E email \in EmailStrings :
          policyCall' = [email |-> email, result |-> is_email_allowed(email), called |-> TRUE]
    /\ UNCHANGED <<config, started, session, tables_global, last, utilCall, inflight>>

PolicyNext == IsEmailAllowedCall

SpecPolicy == PolicyInit /\ [][PolicyNext]_vars

-----------------------------------------------------------------------------
(* The functions checked on their own start from one deployment and make   *)
(* one call.                                                                *)

UtilInit ==
    InitWith([domain |-> <<"p">>, raw |-> << <<>> >>, env |-> "local",
              environment |-> "development", client_id |-> "id",
              client_secret |-> "secret"])

UtilUnchanged ==
    UNCHANGED <<config, started, session, tables_global, last, policyCall, inflight>>

-----------------------------------------------------------------------------
(* The text functions on their own: main.py:34-94 *)

NormChars == {"a", "A", " ", "U+00C1", "U+0301", "U+2122"}

NormInputs == {NoText} \cup {Text(s) : s \in StringsUpTo(NormChars, MaxTextLen)}

NormTextCall ==
    /\ utilCall.fn = "none"
    /\ \E o \in NormInputs :
          utilCall' = [fn |-> "_norm_text", s |-> o, returns |-> norm_text(o)]
    /\ UtilUnchanged

SpecNorm == UtilInit /\ [][NormTextCall]_vars

\* best_match: queries over a few letters, and the two examples; choices are
\* short lists with two spellings of one normalised form among them
MatchChars == {"a", "b", "A", " "}

JhonSmith == <<"J", "h", "o", "n", " ", "S", "m", "i", "t", "h">>
JohnSmith == <<"J", "o", "h", "n", " ", "S", "m", "i", "t", "h">>
JaneDoe == <<"J", "a", "n", "e", " ", "D", "o", "e">>
zzz == <<"z", "z", "z">>

MatchQueries ==
    {NoText, Text(JhonSmith), Text(zzz)}
        \cup {Text(s) : s \in StringsUpTo(MatchChars, MaxQueryLen)}

CandidateTexts == { <<"a", "b">>, <<"A", "b">>, <<"a", " ", "b">>, <<"b", "a">>, <<" ">> }

RECURSIVE ListsUpTo(_, _)
ListsUpTo(items, n) ==
    IF n = 0 THEN {<<>>}
    ELSE LET shorter == ListsUpTo(items, n - 1)
         IN  shorter \cup {Append(l, x) : l \in shorter, x \in items}

MatchChoices ==
    ListsUpTo(CandidateTexts, MaxChoices) \cup { <<JohnSmith, JaneDoe>>, <<JohnSmith>> }

Cutoffs == {0, 72, 100}

BestMatchCall ==
    /\ utilCall.fn = "none"
    /\ \E q \in MatchQueries : \E ch \in MatchChoices : \E pct \in Cutoffs :
          utilCall' = [fn |-> "best_match", query |-> q, choices |-> ch, cutoff |-> pct,
                       returns |-> best_match(q, ch, pct)]
    /\ UtilUnchanged

SpecMatch == UtilInit /\ [][BestMatchCall]_vars

\* smart_filter: a table with the column "nombre", asked about that column
\* and about one it does not have
FilterChars == {"a", "b", "A", ".", "(", " "}

FilterQueries == {NoText} \cup {Text(s) : s \in StringsUpTo(FilterChars, MaxQueryLen)}

FilterCells == {Cell(<<"A", "b">>), Cell(<<"a", " ", "b">>), Cell(<<"b", "a">>), Missing}

FilterTables == {[columns |-> {"nombre"}, rows |-> r] : r \in ListsUpTo(FilterCells, MaxRows)}

SmartFilterCall ==
    /\ utilCall.fn = "none"
    /\ \E df \in FilterTables : \E col \in {"nombre", "otra"} : \E q \in FilterQueries :
          utilCall' = [fn |-> "smart_filter", df |-> df, col |-> col, query |-> q,
                       returns |-> smart_filter(df, col, q)]
    /\ UtilUnchanged

SpecFilter == UtilInit /\ [][SmartFilterCall]_vars

-----------------------------------------------------------------------------
(* The cloud loader on its own: data_loader.py:75-105, called several times *)
(* in one process, the drive side answering each call as it will.           *)

\* One call of the loader in a process that has already made the calls of
\* `history`: the function keeps nothing between calls, so the outcome is
\* that of its body on this call's arguments.
LoaderCall_cached(history, dataset_id, drive) ==
    LET earlier == {i \in DOMAIN history :
                       history[i].dataset_id = dataset_id /\ history[i].returns.ok}
    IN  IF earlier # {}
        THEN [history[CHOOSE i \in earlier : TRUE].returns EXCEPT !.downloads = 0]
        ELSE load_tables_from_drive_dataset(dataset_id, drive)

LoaderCall(history, dataset_id, drive) ==
    load_tables_from_drive_dataset(dataset_id, drive)

LoaderDriveInputs ==
    {[kind |-> k, workbook |-> EmptyTables] : k \in DriveKinds \ {"ok"}}
        \cup {[kind |-> "ok", workbook |-> w] : w \in Workbooks}

\* the drive answers only the calls that reach it
LoaderInputs(dataset_id) ==
    IF dataset_id \notin RegistryKeys \/ Falsy(RegistryEntry(dataset_id)[3])
    THEN {NoDrive}
    ELSE LoaderDriveInputs

LoadTablesCall ==
    /\ utilCall.fn \in {"none", "loader"}
    /\ LET calls == IF utilCall.fn = "none" THEN <<>> ELSE utilCall.calls
           driveCalls == IF utilCall.fn = "none" THEN <<>> ELSE utilCall.driveCalls
       IN  /\ Len(calls) < MaxLoads
           /\ \E dataset_id \in DatasetIds : \E drive \in LoaderInputs(dataset_id) :
                 LET returns == LoaderCall(calls, dataset_id, drive)
                 IN  utilCall' =
                        [fn |-> "loader",
                         calls |-> Append(calls, [dataset_id |-> dataset_id, drive |-> drive,
                                                  returns |-> returns]),
                         driveCalls |-> IF returns.downloads = 1
                                        THEN Append(driveCalls, RegistryEntry(dataset_id)[3])
                                        ELSE driveCalls]
    /\ UtilUnchanged

SpecLoader == UtilInit /\ [][LoadTablesCall]_vars

-----------------------------------------------------------------------------
(* The drive client: gdrive_client.py:13-36, 59-91 *)

GoogleSheetMime == "application/vnd.google-apps.spreadsheet"
XlsxMime == "application/vnd.openxmlformats-officedocument.spreadsheetml.sheet"

\* file_metadata.get("mimeType"): a type, or None when the key is absent
MimeTypes == {GoogleSheetMime, XlsxMime, "application/pdf", None}

\* What the storage side does during one download: whether the credential
\* variable is set, what the metadata request gives (a MIME type, or it
\* fails), and what each next_chunk() gives in turn: bytes and not done,
\* bytes and done, or a failure.
ChunkScripts ==
    {Append(more, end) :
        more \in ListsUpTo({[kind |-> "more", size |-> n] : n \in {1, 2}}, MaxChunks - 1),
        end \in {[kind |-> "done", size |-> n] : n \in {1, 2}}
                   \cup {[kind |-> "fail", size |-> 0]}}

DownloadInputs ==
    {[credential |-> "missing", metadata |-> "fails", chunks |-> <<>>],
     [credential |-> "ok", metadata |-> "fails", chunks |-> <<>>]}
        \cup {[credential |-> "ok", metadata |-> m, chunks |-> c] :
                  m \in MimeTypes, c \in ChunkScripts}

\* the request built for the content: export for a Google Sheet, the stored
\* bytes for anything else
MediaRequest(mime_type) ==
    IF mime_type = GoogleSheetMime THEN "export_media" ELSE "get_media"

\* io.BytesIO: what was written, and the position
EmptyStream == [data |-> <<>>, pos |-> 0]

\* fh.write(content) by the downloader: appends and advances
Write(fh, size) == [data |-> Append(fh.data, size), pos |-> fh.pos + size]

\* fh.seek(0)
Seek_nowhere(fh, offset) == fh

Seek(fh, offset) == [fh EXCEPT !.pos = offset]

\* done = False; while not done: status, done = downloader.next_chunk()
\* The loop from chunk n of the script on: a failing chunk raises out of it.
RECURSIVE ChunkLoop(_, _, _)
ChunkLoop(fh, chunks, n) ==
    IF chunks[n].kind = "fail"
    THEN [raises |-> "HttpError", fh |-> fh, chunkCalls |-> n]
    ELSE IF chunks[n].kind = "done"
    THEN [raises |-> None, fh |-> Write(fh, chunks[n].size), chunkCalls |-> n]
    ELSE ChunkLoop(Write(fh, chunks[n].size), chunks, n + 1)

\* download_spreadsheet_as_excel(file_id) against one behaviour of the
\* storage side
download_spreadsheet_as_excel(in) ==
    LET none == [raises |-> None, metadataCalls |-> 0, request |-> None, chunkCalls |-> 0,
                 fh |-> EmptyStream]
    IN  IF in.credential = "missing"
        THEN [none EXCEPT !.raises = "RuntimeError"]
        ELSE IF in.metadata = "fails"
        THEN [none EXCEPT !.raises = "HttpError", !.metadataCalls = 1]
        ELSE LET loop == ChunkLoop(EmptyStream, in.chunks, 1)
                 made == [none EXCEPT !.metadataCalls = 1,
                                      !.request = MediaRequest(in.metadata),
                                      !.chunkCalls = loop.chunkCalls]
             IN  IF loop.raises # None
                 THEN [made EXCEPT !.raises = loop.raises, !.fh = loop.fh]
                 ELSE [made EXCEPT !.fh = Seek(loop.fh, 0)]

DownloadCall ==
    /\ utilCall.fn = "none"
    /\ \E in \in DownloadInputs :
          utilCall' = [fn |-> "download_spreadsheet_as_excel", in |-> in,
                       returns |-> download_spreadsheet_as_excel(in)]
    /\ UtilUnchanged

SpecDrive == UtilInit /\ [][DownloadCall]_vars

-----------------------------------------------------------------------------
(* explain_result on its own: main.py:994-1034.  The preview is given by    *)
(* its length; the text sent is a prefix of it and, possibly, the notice.   *)

MaxPreviewLen == 1600

MAX_PREVIEW_CHARS == 1500

\* len("\n...[texto truncado para la explicacion]")
TruncationNoticeLen == 40

Min(a, b) == IF a < b THEN a ELSE b

\* result_preview[:k] of a text of n characters: its first min(n, k)
Prefix(n, k) == Min(n, k)

\* the preview as explain_result puts it in the user message:
\*   chars  how many leading characters of the preview it keeps
\*   notice whether the truncation notice follows them
ExplainPreview_uncut(n) ==
    [chars |-> n, notice |-> FALSE]

ExplainPreview(n) ==
    IF n > MAX_PREVIEW_CHARS
    THEN [chars |-> Prefix(n, MAX_PREVIEW_CHARS), notice |-> TRUE]
    ELSE [chars |-> n, notice |-> FALSE]

\* len() of that text
SentLen(sent) == sent.chars + (IF sent.notice THEN TruncationNoticeLen ELSE 0)

\* explain_result(question, code, result_preview): builds the two messages,
\* calls the model once and returns the stripped reply, or the call raises
ExplainResultCall ==
    /\ utilCall.fn = "none"
    /\ \E n \in 0..MaxPreviewLen : \E reply \in {"ok", CallFails} :
          utilCall' = [fn |-> "explain_result", previewLen |-> n,
                       sent |-> ExplainPreview(n),
                       messages |-> <<"system", "user">>,
                       reply |-> reply,
                       returns |-> IF reply = CallFails THEN None ELSE ExplanationText]
    /\ UtilUnchanged

ExplainNext == ExplainResultCall

SpecExplain == UtilInit /\ [][ExplainNext]_vars

-----------------------------------------------------------------------------
(* The mode switches on their own: one session under every pairing of the  *)
(* values ENV and ENVIRONMENT can take that the mode tests look at.         *)

EnvValues == {"local", "prod", "production"}
EnvironmentValues == {"development", "prod", "production"}

ModeInit ==
    \E e \in EnvValues : \E m \in EnvironmentValues :
        InitWith([domain |-> <<"p">>, raw |-> << <<>> >>, env |-> e, environment |-> m,
                  client_id |-> "id", client_secret |-> "secret"])

ModeNext ==
    \/ Startup
    \/ GoogleCallback("s1")
    \/ Logout("s1")
    \/ Docs("s1")
    \/ UploadExcel("s1")
    \/ Ask("s1")

SpecMode == ModeInit /\ [][ModeNext]_vars

-----------------------------------------------------------------------------
(* Claims *)

DataRoutes ==
    {"/chat", "/ask", "/ask/{dataset_id}", "/upload_excel", "/debug/drive-dataset/{dataset_id}"}

AskRoutes == {"/ask", "/ask/{dataset_id}"}

NoDataWork(r) == r.loads = 0 /\ r.downloads = 0 /\ r.modelCalls = 0 /\ r.execs = 0

\* C1: a request to a data-bearing route on a session whose authenticated
\* flag is not set is answered 401 and loads no dataset, calls no model,
\* executes no snippet and leaves the default table set as it was, in
\* production and non-production deployments alike.
C1_UnauthenticatedRejected ==
    (last.route \in DataRoutes /\ ~last.sessBefore.authenticated)
        => /\ last.status = 401
           /\ NoDataWork(last)
           /\ tables_global = last.tgBefore

C1_Witness ==
    /\ last.route = "/upload_excel"
    /\ ~last.sessBefore.authenticated
    /\ last.status = 401
    /\ \E s \in Sessions : session[s].authenticated

\* C2: for an authenticated session, /chat without a dataset id answers 200
\* with the pick-a-dataset guidance, /chat with an id that is no registry key
\* answers 200 naming that id as invalid, neither loads a dataset nor runs
\* the pipeline, and only a registry key is delegated to /ask/{dataset_id}.
C2_ChatGating ==
    (last.route = "/chat" /\ last.sessBefore.authenticated)
        => /\ Falsy(last.dataset_id)
                => /\ last.status = 200
                   /\ "Selecciona un dataset en el menu desplegable (barra superior)."
                          \in Range(last.answer)
                   /\ NoDataWork(last)
           /\ (~Falsy(last.dataset_id) /\ last.dataset_id \notin RegistryKeys)
                => /\ last.status = 200
                   /\ "Dataset invalido" \in Range(last.answer)
                   /\ HtmlEscape(last.dataset_id) \in Range(last.answer)
                   /\ NoDataWork(last)
           /\ ~NoDataWork(last) => last.dataset_id \in RegistryKeys
           /\ last.dataset_id \in RegistryKeys => last.loads = 1

C2_Witness ==
    /\ last.route = "/chat"
    /\ last.sessBefore.authenticated
    /\ last.dataset_id = "<x>"
    /\ last.stage = "invalid_dataset"

\* C3 (as claimed): whatever a snippet raises in /ask or /ask/{dataset_id},
\* the request completes with a 200 answer that embeds the failure text and
\* the snippet, and nothing propagates out of the handler.
C3_SnippetFailureCaught ==
    (last.route \in AskRoutes /\ last.execs = 1 /\ last.raises # None)
        => /\ last.status = 200
           /\ ~last.propagated
           /\ ExecOutcome(last.code).text \in Range(last.answer)
           /\ last.code \in Range(last.answer)

\* C4 (as claimed): after a snippet ran without raising, the "result was not
\* generated" answer is returned exactly when the snippet bound no variable
\* named result; a snippet that bound result, to any value, reaches the
\* explanation stage.
C4_NoResultIffUnbound ==
    (last.route \in AskRoutes /\ last.execs = 1 /\ last.raises = None)
        => /\ (last.stage = "no_result") <=> ~last.binds
           /\ last.binds => last.modelCalls = 2

\* C5: when the explanation call fails after a snippet produced a result, the
\* answer is a 200 that says the explanation failed and contains the preview
\* text of the result.
C5_ExplainFailureKeepsPreview ==
    (last.route \in AskRoutes \cup {"/chat"} /\ last.explainReply = CallFails)
        => /\ last.status = 200
           /\ ~last.propagated
           /\ "El analisis se ejecuto bien, pero hubo un error al generar la explicacion:"
                  \in Range(last.answer)
           /\ last.preview # None
           /\ last.preview \in Range(last.answer)

C5_Witness ==
    /\ last.route = "/ask/{dataset_id}"
    /\ last.explainReply = CallFails
    /\ last.code = "result = tables['S1']"
    /\ last.preview = "DataFrame (n filas): head(10)"

\* C6: in /ask/{dataset_id}, a dataset load that fails (unconfigured id,
\* missing credential, storage or parse failure) gives a 200 answer naming
\* the dataset id and the error text, with no model call and no execution.
LoadFailed(r) == r.loads = 1 /\ (r.downloads = 0 \/ r.driveKind # "ok")

C6_LoadFailureAnswered ==
    (last.route = "/ask/{dataset_id}" /\ LoadFailed(last))
        => /\ last.status = 200
           /\ ~last.propagated
           /\ last.dataset_id \in Range(last.answer)
           /\ IF last.downloads = 0
              THEN "no esta configurado en DATASETS_SPREADSHEETS." \in Range(last.answer)
              ELSE DriveErrorText(last.driveKind) \in Range(last.answer)
           /\ last.modelCalls = 0
           /\ last.execs = 0

C6_Witness ==
    /\ last.route = "/ask/{dataset_id}"
    /\ last.dataset_id = "gestion_personal"
    /\ last.driveKind = "no_credential"
    /\ last.status = 200

\* C7: the callback applies its checks in the order provider error (400),
\* missing code (400), token exchange failure (500), missing access token
\* (500), userinfo failure (500), missing email (500), email rejected by the
\* policy (403), and answers for the first that fails, leaving the session
\* as it was; only when none fails does it store authenticated, email and
\* name and redirect 303 to "/".
CallbackChecks(cb) ==
    << <<~Falsy(cb.error), 400, "Error de Google OAuth:">>,
       <<Falsy(cb.code), 400, "No se recibio el codigo de autorizacion.">>,
       <<cb.token_status # 200, 500, "Error al obtener tokens de Google:">>,
       <<Falsy(cb.access_token), 500, "No se obtuvo access_token en la respuesta de Google.">>,
       <<cb.userinfo_status # 200, 500, "Error al obtener informacion del usuario:">>,
       <<cb.email = <<>>, 500, "No se obtuvo el correo electronico del usuario.">>,
       <<~is_email_allowed(cb.email), 403,
         "Tu cuenta no esta autorizada para acceder a Pulso Analytics IA.">> >>

FailingChecks(cb) == {i \in DOMAIN CallbackChecks(cb) : CallbackChecks(cb)[i][1]}

C7_CallbackOrder ==
    last.route = "/auth/google/callback"
        => LET failing == FailingChecks(last.cb)
           IN  IF failing # {}
               THEN LET first == CHOOSE i \in failing : \A j \in failing : i <= j
                    IN  /\ last.status = CallbackChecks(last.cb)[first][2]
                        /\ last.answer[1] = CallbackChecks(last.cb)[first][3]
                        /\ session[last.sess] = last.sessBefore
               ELSE /\ last.status = 303
                    /\ last.location = "/"
                    /\ session[last.sess] =
                          [authenticated |-> TRUE, user_email |-> last.cb.email,
                           user_name |-> last.cb.name]

C7_Witness ==
    /\ last.route = "/auth/google/callback"
    /\ last.status = 403
    /\ last.sessBefore.authenticated
    /\ session[last.sess] = last.sessBefore

\* C8: logout clears the whole session and redirects 303 to the login entry
\* point; from then on the session is not authenticated, so its data requests
\* get 401 and GET / redirects to login, and the only step that makes a
\* session authenticated again is a successful callback on that session.
LogoutClears ==
    /\ last.route = "/logout"
          => /\ session[last.sess] = ClearedSession
             /\ last.status = 303
             /\ last.location = "/auth/google/login"
    /\ (last.route \in DataRoutes /\ ~last.sessBefore.authenticated) => last.status = 401
    /\ (last.route = "/" /\ ~last.sessBefore.authenticated)
          => last.status = 303 /\ last.location = "/auth/google/login"
    /\ \A s \in Sessions :
          (last.sess = s /\ last.route \in DataRoutes \cup {"/"})
              => last.sessBefore = session[s]

AuthenticatedOnlyByCallback ==
    \A s \in Sessions :
        (~session[s].authenticated /\ session'[s].authenticated)
            => /\ last'.route = "/auth/google/callback"
               /\ last'.sess = s
               /\ last'.status = 303

C8_LogoutEndsSession == [](LogoutClears) /\ [][AuthenticatedOnlyByCallback]_vars

C8_Witness ==
    /\ last.route = "/logout"
    /\ last.sessBefore.authenticated
    /\ last.sessBefore.user_email # <<>>
    /\ \E s \in Sessions \ {last.sess} : session[s].authenticated

\* C9 (as claimed): is_email_allowed(email) is true exactly when the email,
\* compared without regard to case, ends with "@" + the allowed domain and,
\* when the allow-list is not empty, the lower-cased email is in it.
C9_PolicyCaseInsensitive ==
    policyCall.called
        => policyCall.result
              = (/\ EndsWith(Lower(policyCall.email), Lower(<<"@">> \o ALLOWED_DOMAIN))
                 /\ ALLOWED_EMAILS # {} => Lower(policyCall.email) \in ALLOWED_EMAILS)

\* C10 (as claimed): the registry in effect has exactly the keys
\* noi_inmuebles, gestion_personal and operaciones, each with a display name
\* and a file id; resolving an id succeeds exactly for these, and
\* noi_inmuebles resolves to the name "Finanzas - noi inmuebles".
SpecifiedKeys == {"noi_inmuebles", "gestion_personal", "operaciones"}

C10_RegistryResolves ==
    /\ last.loads = 1 => ((last.downloads = 1) <=> (last.dataset_id \in SpecifiedKeys))
    /\ (last.loads = 1 /\ last.dataset_id = "noi_inmuebles")
          => /\ DatasetName(last.dataset_id) = "Finanzas - noi inmuebles"
             /\ ~Falsy(RegistryEntry(last.dataset_id)[3])

\* C11 (as claimed): production mode is one switch.  When ENV or ENVIRONMENT
\* is "prod" or "production", GET /docs is not the interactive documentation,
\* an authenticated /upload_excel is refused as disabled and an authenticated
\* /ask gives the disabled answer; when neither is, none of the three is
\* disabled.
ProductionValues == {"prod", "production"}

ProductionMode == ENV \in ProductionValues \/ ENVIRONMENT \in ProductionValues

C11_SingleSwitch ==
    /\ last.route = "/docs"
          => ((last.stage # "swagger_ui_html") <=> ProductionMode)
    /\ (last.route = "/upload_excel" /\ last.sessBefore.authenticated)
          => ((last.stage = "disabled") <=> ProductionMode)
    /\ (last.route = "/ask" /\ last.sessBefore.authenticated)
          => ((last.stage = "disabled") <=> ProductionMode)

DisabledAskAnswer ==
    <<"Este endpoint ya no se usa en produccion. Selecciona un dataset de Google Drive y consulta por /ask/{dataset_id}.">>

\* C12: with the production flag set (ENV is "prod"), an authenticated
\* /upload_excel is answered 410 and leaves the default table set as it was,
\* and an authenticated /ask gives the fixed "no longer used" answer without
\* reading the default table set, calling the model or executing a snippet.
C12_ProductionDisables ==
    /\ (last.route = "/upload_excel" /\ last.sessBefore.authenticated /\ ENV = "prod")
          => /\ last.status = 410
             /\ tables_global = last.tgBefore
             /\ NoDataWork(last)
    /\ (last.route = "/ask" /\ last.sessBefore.authenticated /\ ENV = "prod")
          => /\ last.status = 200
             /\ last.answer = DisabledAskAnswer
             /\ ~last.readsGlobal
             /\ last.modelCalls = 0
             /\ last.execs = 0
             /\ tables_global = last.tgBefore

C12_Witness ==
    /\ last.route = "/upload_excel"
    /\ last.sessBefore.authenticated
    /\ ENV = "prod"
    /\ last.status = 410
    /\ tables_global = DefaultWorkbook

\* C13: the default table set changes only in the startup step and in an
\* /upload_excel that succeeds outside production; every other request,
\* with whatever snippet it executes, leaves it as it was; and a successful
\* upload leaves exactly the sheets of the uploaded workbook in it.
TablesGlobalWrittenOnlyBy ==
    /\ tables_global' # tables_global
          => \/ last'.route = "startup"
             \/ /\ last'.route = "/upload_excel"
                /\ last'.stage = "uploaded"
                /\ ~IS_PROD
    /\ (last'.route = "/upload_excel" /\ last'.stage = "uploaded")
          => tables_global' = last'.tables

C13_DefaultTablesWrites == [][TablesGlobalWrittenOnlyBy]_vars

C13_Witness ==
    /\ last.route = "/upload_excel"
    /\ last.stage = "uploaded"
    /\ last.tgBefore = {<<"S1", "t2">>, <<"S2", "t3">>}
    /\ tables_global = {<<"S1", "t1">>}

\* C14: a startup whose load of the default workbook fails still completes,
\* with an empty default table set; while that set is empty an authenticated
\* /ask outside production gives the "no data loaded" answer with no model
\* call and no execution; with a table set loaded it runs the pipeline on
\* that set, and right after a successful upload that set is the upload.
AskOnDefaultTables ==
    /\ (last.route = "startup" /\ last.startupLoad = "failed")
          => started /\ tables_global = EmptyTables
    /\ (last.route = "/ask" /\ last.sessBefore.authenticated /\ ~IS_PROD)
          => IF last.tgBefore = EmptyTables
             THEN /\ last.status = 200
                  /\ last.answer = <<"No hay datos cargados. Sube un archivo Excel primero.">>
                  /\ last.modelCalls = 0
                  /\ last.execs = 0
             ELSE /\ last.modelCalls >= 1
                  /\ last.tables = last.tgBefore

AskAfterUpload ==
    (last.stage = "uploaded" /\ last'.route = "/ask" /\ last'.sessBefore.authenticated)
        => /\ last'.modelCalls >= 1
           /\ last'.tables = last.tables

C14_EmptyDefaultTables == [](AskOnDefaultTables) /\ [][AskAfterUpload]_vars

C14_Witness ==
    /\ last.route = "/ask"
    /\ last.sessBefore.authenticated
    /\ last.stage = "no_data"
    /\ tables_global = EmptyTables

\* C20 (as claimed): GET /docs is answered by the embedded chat UI page,
\* whatever the session and whatever ENVIRONMENT is.
C20_DocsIsEmbeddedUI ==
    last.route = "/docs" => last.stage = "pulso_analytics_ui"

\* C19 (as claimed): for every result preview, the preview text placed in
\* the explanation-stage message is at most 1500 characters long.
C19_PreviewAtMost1500 ==
    utilCall.fn = "explain_result" => SentLen(utilCall.sent) <= 1500

\* C19 (amended): the text placed in the message is the preview itself when
\* the preview has at most 1500 characters, and otherwise its first 1500
\* characters followed by the 40-character truncation notice, so it is at
\* most 1540 characters long.
C19_PreviewCapped ==
    utilCall.fn = "explain_result"
        => /\ utilCall.sent.chars <= 1500
           /\ utilCall.sent.chars = Min(utilCall.previewLen, 1500)
           /\ utilCall.sent.notice <=> utilCall.previewLen > 1500
           /\ SentLen(utilCall.sent) <= 1540

C19_Witness ==
    /\ utilCall.fn = "explain_result"
    /\ utilCall.previewLen = 1501
    /\ SentLen(utilCall.sent) = 1540

\* C18 (as claimed): normalize is idempotent, its output has no upper-case
\* letter, no combining mark, no leading or trailing whitespace and no two
\* whitespace characters in a row, and normalize of an absent value is the
\* empty string.
C18_NormalizeIdempotent ==
    utilCall.fn = "_norm_text"
        => LET out == utilCall.returns
           IN  /\ norm_text(Text(out)) = out
               /\ \A i \in DOMAIN out : ~IsUpper(out[i]) /\ ~Combining(out[i])
               /\ out # <<>> => ~IsSpace(out[1]) /\ ~IsSpace(out[Len(out)])
               /\ \A i \in 1..(Len(out) - 1) : ~(IsSpace(out[i]) /\ IsSpace(out[i + 1]))
               /\ ~utilCall.s.given => out = <<>>

\* C17: best_match gives no match for an empty query or an empty candidate
\* list; a candidate it returns is one of the candidates, its normalised
\* form scores at least the cutoff against the normalised query, no
\* candidate scores higher, and it is the first spelling, in candidate
\* order, of its normalised form.  "Jhon Smith" against "John Smith" and
\* "Jane Doe" at 0.72 gives "John Smith"; "zzz" against "John Smith" gives
\* no match.  (Candidates whose normalised form is empty take no part.)
Score(c, q) == Ratio(norm_text(Text(c)), norm_text(q))

LiteralContains(text, q) ==
    \E off \in 0..(Len(text) - Len(q)) : SubSeq(text, off + 1, off + Len(q)) = q

NormCell(cell) == norm_text(IF cell.missing THEN NoText ELSE Text(cell.text))

LadderRows(df, col, query) ==
    LET qn == norm_text(query)
        hit == Keep([i \in DOMAIN df.rows |-> LiteralContains(NormCell(df.rows[i]), qn)])
        bm == best_match(query, uniques(df.rows), 72)
        equal == [i \in DOMAIN df.rows |-> ~df.rows[i].missing /\ df.rows[i].text = bm.value]
    IN  IF col \notin df.columns \/ qn = <<>> THEN AllRows(df.rows)
        ELSE IF hit # <<>> THEN hit
        ELSE IF bm.found THEN Keep(equal)
        ELSE AllRows(df.rows)

C15_SmartFilterLadder ==
    (utilCall.fn = "smart_filter" /\ utilCall.returns.raises = None)
        => utilCall.returns.rows = LadderRows(utilCall.df, utilCall.col, utilCall.query)

\* C16 (as claimed): for every table, column name and query, smart_filter
\* raises nothing and, given a table with at least one row, returns at least
\* one row.
C16_SmartFilterTotal ==
    utilCall.fn = "smart_filter"
        => /\ utilCall.returns.raises = None
           /\ utilCall.df.rows # <<>> => utilCall.returns.rows # <<>>

\* C21: the loader fails with the invalid-input error, without a call to the
\* drive client, for an id that is no registry key or whose entry has no
\* file id; every other call makes its own download (as many downloads as
\* there were such calls, whatever was loaded before) and, when the
\* download and the parse succeed, returns exactly the sheets of the
\* workbook downloaded by that call, one table per sheet name.
Unconfigured(dataset_id) ==
    dataset_id \notin RegistryKeys \/ Falsy(RegistryEntry(dataset_id)[3])

C21_LoaderNoCache ==
    utilCall.fn = "loader"
        => /\ \A i \in DOMAIN utilCall.calls :
                 LET c == utilCall.calls[i]
                 IN  IF Unconfigured(c.dataset_id)
                     THEN /\ ~c.returns.ok
                          /\ c.returns.downloads = 0
                          /\ c.returns.err[1] = "Dataset"
                          /\ c.returns.err[2] = c.dataset_id
                     ELSE /\ c.returns.downloads = 1
                          /\ c.returns.ok <=> c.drive.kind = "ok"
                          /\ c.returns.ok
                                => /\ c.returns.tables = c.drive.workbook
                                   /\ Cardinality({p[1] : p \in c.returns.tables})
                                         = Cardinality(c.returns.tables)
           /\ Len(utilCall.driveCalls)
                 = Cardinality({i \in DOMAIN utilCall.calls :
                                   ~Unconfigured(utilCall.calls[i].dataset_id)})

C21_Witness ==
    /\ utilCall.fn = "loader"
    /\ Len(utilCall.calls) = 2
    /\ utilCall.calls[1].dataset_id = "gestion_personal"
    /\ utilCall.calls[2].dataset_id = "gestion_personal"
    /\ utilCall.calls[1].returns.tables = {<<"S1", "t1">>}
    /\ utilCall.calls[2].returns.tables = {<<"S1", "t2">>, <<"S2", "t3">>}
    /\ Len(utilCall.driveCalls) = 2

\* C22: the download asks for an export exactly when the declared MIME type
\* is the Google Sheets type and for the stored bytes otherwise; on either
\* path it calls next_chunk until one reports done and returns the stream,
\* holding every chunk in order, positioned at offset 0; a failure of the
\* metadata request or of a chunk propagates at once, with no second
\* attempt and no further chunk.
FirstEnd(chunks) ==
    CHOOSE n \in DOMAIN chunks :
        chunks[n].kind # "more" /\ \A k \in 1..(n - 1) : chunks[k].kind = "more"

C22_DownloadPaths ==
    (utilCall.fn = "download_spreadsheet_as_excel" /\ utilCall.in.credential = "ok")
        => LET in == utilCall.in
               r == utilCall.returns
           IN  /\ r.metadataCalls = 1
               /\ IF in.metadata = "fails"
                  THEN r.raises # None /\ r.request = None /\ r.chunkCalls = 0
                  ELSE LET n == FirstEnd(in.chunks)
                       IN  /\ (r.request = "export_media") <=> (in.metadata = GoogleSheetMime)
                           /\ (r.request = "get_media") <=> (in.metadata # GoogleSheetMime)
                           /\ r.chunkCalls = n
                           /\ IF in.chunks[n].kind = "fail"
                              THEN r.raises # None
                              ELSE /\ r.raises = None
                                   /\ r.fh.pos = 0
                                   /\ r.fh.data = [k \in 1..n |-> in.chunks[k].size]

C22_Witness ==
    /\ utilCall.fn = "download_spreadsheet_as_excel"
    /\ utilCall.in.metadata = GoogleSheetMime
    /\ utilCall.returns.request = "export_media"
    /\ utilCall.returns.chunkCalls = 3
    /\ utilCall.returns.raises = None
    /\ utilCall.returns.fh = [data |-> <<2, 1, 2>>, pos |-> 0]

-----------------------------------------------------------------------------
(* Requests in progress: main.py:1126-1335 run line by line.  /ask,
   /ask/{dataset_id} and /chat are `def` handlers, which the framework runs
   on worker threads; /upload_excel is `async def` and rebinds tables_global
   in one assignment on the event loop.  Each handler is cut where it reads
   tables_global or its own `tables`, which is where another request's step
   can fall in between. *)

MaxUploads == 2

\* snippets and replies the requests in progress draw from
ConcReplies == {"result = tables['S1']", "result = foo"}

ConcDriveInputs ==
    {[kind |-> "storage_error", workbook |-> EmptyTables]}
        \cup {[kind |-> "ok", workbook |-> w] : w \in Workbooks}

\* exec(code, safe_globals, safe_locals) on a given tables binding: the
\* snippet that reads tables['S1'] gets that sheet, or a KeyError
ExecOutcomeOn(code, tables) ==
    IF code # "result = tables['S1']" THEN ExecOutcome(code)
    ELSE IF \E e \in tables : e[1] = "S1"
    THEN [ExecOutcome(code) EXCEPT !.value = (CHOOSE e \in tables : e[1] = "S1")[2]]
    ELSE [raises |-> "KeyError", isException |-> TRUE, text |-> "'S1'",
          binds |-> FALSE, value |-> None]

\* the table set a handler names at 1178/1187 (tables_global) and at
\* 1244/1253 (the local `tables` bound at 1232)
RequestTables_global(q, tg) == tg

RequestTables(q, tg) == IF q.route = "/ask" THEN tg ELSE q.tables[1]

SetReq(r, q) == inflight' = [inflight EXCEPT !.reqs[r] = q]

Done(q, stage) == [q EXCEPT !.pc = "done", !.stage = stage]

\* a request arrives and passes the gate; /ask goes on only outside
\* production (1165), /chat only with a registered dataset id (1305-1322)
ConcBegin(r) ==
    /\ inflight.reqs[r].pc = "idle"
    /\ require_auth(session["s1"])
    /\ \/ /\ ~IS_PROD
          /\ SetReq(r, [Idle EXCEPT !.pc = "test", !.route = "/ask",
                                    !.atStart = <<tables_global>>])
       \/ \E route \in {"/ask/{dataset_id}", "/chat"} : \E dataset_id \in RegistryKeys :
             SetReq(r, [Idle EXCEPT !.pc = "load", !.route = route,
                                    !.dataset_id = dataset_id,
                                    !.atStart = <<tables_global>>])
    /\ UNCHANGED <<config, started, session, tables_global, last, policyCall, utilCall>>

\* /ask: `if not tables_global` (1172)
AskTest(r) ==
    LET q == inflight.reqs[r]
        t == [q EXCEPT !.tested = <<tables_global>>]
    IN  /\ q.pc = "test"
        /\ IF NoDataLoaded(tables_global)
           THEN SetReq(r, Done(t, "no_data"))
           ELSE SetReq(r, [t EXCEPT !.pc = "generate"])
        /\ UNCHANGED <<config, started, session, tables_global, last, policyCall, utilCall>>

\* /ask/{dataset_id}: tables = load_tables_from_drive_dataset(dataset_id) (1232)
DatasetLoad(r) ==
    LET q == inflight.reqs[r]
    IN  /\ q.pc = "load"
        /\ \E drive \in ConcDriveInputs :
              LET loaded == load_tables_from_drive_dataset(q.dataset_id, drive)
                  l == [q EXCEPT !.drive = <<drive>>]
              IN  IF ~loaded.ok
                  THEN SetReq(r, Done(l, "load_failed"))
                  ELSE SetReq(r, [l EXCEPT !.pc = "generate", !.tables = <<loaded.tables>>])
        /\ UNCHANGED <<config, started, session, tables_global, last, policyCall, utilCall>>

\* code = generate_pandas_code(question, <tables>) (1178, 1244): the table
\* set is described to the model, which replies or fails
ConcGenerate(r) ==
    LET q == inflight.reqs[r]
        g == [q EXCEPT !.described = <<RequestTables(q, tables_global)>>]
    IN  /\ q.pc = "generate"
        /\ \E gen \in ConcReplies \cup {CallFails} :
              IF gen = CallFails
              THEN SetReq(r, Done([g EXCEPT !.gen = gen], "gen_failed"))
              ELSE SetReq(r, [g EXCEPT !.pc = "execute", !.gen = gen,
                                       !.code = StripFences(gen)])
        /\ UNCHANGED <<config, started, session, tables_global, last, policyCall, utilCall>>

\* the copy and the exec (1187-1200, 1253-1266)
ConcExecute(r) ==
    LET q == inflight.reqs[r]
        binding == TablesBinding(RequestTables(q, tables_global))
        out == ExecOutcomeOn(q.code, binding.tables)
        x == [q EXCEPT !.executed = <<binding.tables>>]
    IN  /\ q.pc = "execute"
        /\ IF out.raises # None /\ out.isException
           THEN SetReq(r, Done(x, "exec_failed"))
           ELSE IF out.raises # None
           THEN SetReq(r, Done(x, "exec_propagated"))
           ELSE IF LocalsGetResult(out) = None
           THEN SetReq(r, Done(x, "no_result"))
           ELSE SetReq(r, [x EXCEPT !.pc = "explain", !.result = LocalsGetResult(out)])
        /\ tables_global' =
              IF q.route = "/ask"
              THEN TablesAfterExec(binding, [execs |-> 1, code |-> q.code])
              ELSE tables_global
        /\ UNCHANGED <<config, started, session, last, policyCall, utilCall>>

\* explanation = explain_result(question, preview_text) (1214-1222, 1280-1297)
ConcExplain(r) ==
    LET q == inflight.reqs[r]
    IN  /\ q.pc = "explain"
        /\ \E reply \in {"ok", CallFails} :
              SetReq(r, Done([q EXCEPT !.explain = reply],
                             IF reply = CallFails THEN "explain_failed" ELSE "explained"))
        /\ UNCHANGED <<config, started, session, tables_global, last, policyCall, utilCall>>

\* /upload_excel outside production: tables_global is rebound (1144)
ConcUpload ==
    /\ inflight.uploads < MaxUploads
    /\ require_auth(session["s1"])
    /\ ~IS_PROD
    /\ \E workbook \in Workbooks :
          tables_global' = UploadedTables(tables_global, workbook)
    /\ inflight' = [inflight EXCEPT !.uploads = @ + 1]
    /\ UNCHANGED <<config, started, session, last, policyCall, utilCall>>

\* The service has started, with or without its default workbook, and the
\* user has signed in.
ConcInit ==
    /\ ALLOWED_DOMAIN = <<"p">>
    /\ ALLOWED_EMAILS_RAW = << <<>> >>
    /\ ENV = "local"
    /\ ENVIRONMENT = "development"
    /\ GOOGLE_CLIENT_ID = "id"
    /\ GOOGLE_CLIENT_SECRET = "secret"
    /\ started = TRUE
    /\ session = [s \in Sessions |->
                    [authenticated |-> TRUE, user_email |-> <<"a", "@", "p">>,
                     user_name |-> "Ana"]]
    /\ \E ok \in BOOLEAN : tables_global = StartupTables(ok)
    /\ last = NoRequest
    /\ policyCall = NoPolicyCall
    /\ utilCall = NoUtilCall
    /\ inflight = NoInflight

ConcNext ==
    \/ ConcUpload
    \/ \E r \in Slots :
          \/ ConcBegin(r)
          \/ AskTest(r)
          \/ DatasetLoad(r)
          \/ ConcGenerate(r)
          \/ ConcExecute(r)
          \/ ConcExplain(r)

SpecConc == ConcInit /\ [][ConcNext]_vars

\* Stage traces of the question pipeline.
IsPrefix(p, q) == Len(p) <= Len(q) /\ SubSeq(q, 1, Len(p)) = p

StagesOf(route) ==
    IF route = "/ask" THEN <<"generate", "execute", "explain">>
    ELSE <<"load", "generate", "execute", "explain">>

Count(steps, names) == Cardinality({i \in DOMAIN steps : steps[i] \in names})

FailedStages ==
    {"load_failed", "gen_failed", "exec_failed", "exec_propagated", "no_result",
     "explain_failed"}

StageOrder(r) ==
    /\ IsPrefix(r.steps, StagesOf(r.route))
    /\ r.loads = Count(r.steps, {"load"})
    /\ r.modelCalls = Count(r.steps, {"generate", "explain"})
    /\ r.execs = Count(r.steps, {"execute"})
    /\ r.modelCalls <= 2
    /\ Count(r.steps, {"generate"}) > 0 /\ r.route # "/ask"
          => r.downloads = 1 /\ r.driveKind = "ok"
    /\ Count(r.steps, {"execute"}) > 0 => r.genReply # CallFails
    /\ Count(r.steps, {"explain"}) > 0 => r.raises = None /\ r.binds
    /\ r.stage = "load_failed" => r.steps = <<"load">>
    /\ r.stage = "gen_failed" => r.steps[Len(r.steps)] = "generate"
    /\ r.stage \in {"exec_failed", "exec_propagated", "no_result"}
          => r.steps[Len(r.steps)] = "execute"
    /\ r.stage \in {"explain_failed", "explained"} => r.steps = StagesOf(r.route)

FailureAnswered(r) ==
    r.stage \in FailedStages => r.status = 200 /\ ~r.propagated /\ r.answer # <<>>

RanStages(r) == r.route \in AskRoutes /\ r.sessBefore.authenticated /\ r.steps # <<>>

\* C23 (as claimed): within one /ask or /ask/{dataset_id} request the stages
\* run in the order load, generate code, execute, explain, each only after
\* the one before it succeeded; the model is called at most twice, once per
\* model stage and never again after a failed call; and a failure at any
\* stage ends the request with an answer and with no later stage run.
C23_StagesInOrder == RanStages(last) => StageOrder(last) /\ FailureAnswered(last)

\* The order, the call counts and the no-later-stage part on their own.
C23_StageOrderOnly == RanStages(last) => StageOrder(last)

\* C26: in every reachable state, a session whose authenticated flag is set
\* holds a non-empty email that the access policy accepts (the configuration
\* is fixed for the life of the process, so accepted now is accepted when it
\* was stored): lower-cased, it ends with "@" and the configured domain and,
\* when the allow-list is not empty, it is a member of the allow-list.
AllowList ==
    {Lower(Strip(ALLOWED_EMAILS_RAW[i])) : i \in DOMAIN ALLOWED_EMAILS_RAW} \ {<<>>}

PolicyAccepts(email) ==
    /\ EndsWith(Lower(email), <<"@">> \o ALLOWED_DOMAIN)
    /\ AllowList = {} \/ Lower(email) \in AllowList

C26_AuthenticatedImpliesAccepted ==
    \A s \in Sessions :
        session[s].authenticated
            => session[s].user_email # <<>> /\ PolicyAccepts(session[s].user_email)

\* A session authenticated by an accepted callback, after another callback
\* on the same session was rejected for its email.
C26_Witness ==
    /\ last.route = "/auth/google/callback"
    /\ last.status = 403
    /\ last.sessBefore.authenticated
    /\ session[last.sess].authenticated
    /\ last.cb.email # session[last.sess].user_email

\* C27: the tables binding handed to a snippet is a fresh copy: after any
\* snippet ran (one that removes or adds entries of tables, or that fails
\* after changing it, included), the table set the handler holds for that
\* request and the process-wide default table set are what they were before
\* the execution, and the snippet of the next /ask request is handed the
\* same default table set as the one before it.
Executed(r) == r.route \in AskRoutes /\ r.execs = 1

ExecLeavesTables ==
    Executed(last) => last.tablesAfter = last.tables /\ tables_global = last.tgBefore

LaterSnippetSeesSame ==
    (Executed(last) /\ last.route = "/ask" /\ Executed(last') /\ last'.route = "/ask")
        => last'.tables = last.tables

C27_SnippetGetsCopy == [](ExecLeavesTables) /\ [][LaterSnippetSeesSame]_vars

\* A snippet that added an entry to tables and then failed, on the default
\* table set.
C27_Witness ==
    /\ last.route = "/ask"
    /\ last.code = "tables['N'] = 1; result = foo"
    /\ last.stage = "exec_failed"
    /\ SnippetTables(last.code, last.tables) # last.tables
    /\ tables_global = last.tables

\* C24: for any interleaving of /ask/{dataset_id} and /chat requests with
\* each other, with /ask and with /upload_excel, the table set such a request
\* describes to the model and the one it executes against are the one it
\* loaded itself; it never tests the process-wide default table set, and no
\* step of it changes that table set; its result and the way it ends are
\* those its own load, snippet and model replies give on their own.
OwnInputs(q) ==
    [gen |-> IF q.gen = None THEN CallFails ELSE q.gen, fmt |-> FALSE,
     explain |-> IF q.explain = None THEN "ok" ELSE q.explain]

DatasetRequestIsolated(q) ==
    /\ q.tested = <<>>
    /\ q.tables # <<>> => q.tables = <<q.drive[1].workbook>>
    /\ q.described # <<>> => q.described = q.tables
    /\ q.executed # <<>> => q.executed = q.tables
    /\ q.result # None => q.result = ExecOutcomeOn(q.code, q.drive[1].workbook).value
    /\ q.pc = "done"
          => q.stage = ask_on_dataset(Request(q.route, "s1", session["s1"], q.atStart[1]),
                                      q.dataset_id, q.drive[1], OwnInputs(q)).stage

DatasetRequests ==
    {r \in Slots : inflight.reqs[r].route \in {"/ask/{dataset_id}", "/chat"}}

DefaultTablesChangedByUploadOnly ==
    tables_global' # tables_global => inflight'.uploads = inflight.uploads + 1

C24_DatasetRequestsIsolated ==
    /\ [](\A r \in DatasetRequests : DatasetRequestIsolated(inflight.reqs[r]))
    /\ [][DefaultTablesChangedByUploadOnly]_vars

\* Two dataset requests in progress together that loaded different
\* workbooks, one finished and one about to execute, after an upload changed
\* the default table set to one that is not what the second is to execute.
C24_Witness ==
    /\ inflight.reqs["r1"].route = "/ask/{dataset_id}"
    /\ inflight.reqs["r2"].route = "/chat"
    /\ inflight.reqs["r1"].stage = "explained"
    /\ inflight.reqs["r2"].pc = "execute"
    /\ inflight.reqs["r1"].tables # inflight.reqs["r2"].tables
    /\ inflight.uploads > 0
    /\ <<tables_global>> # inflight.reqs["r1"].atStart
    /\ <<tables_global>> # inflight.reqs["r2"].tables

\* C25 (as claimed): for any interleaving of one non-production /ask request
\* with /upload_excel requests, the table set the request tests for
\* emptiness, the one it describes to the model and the one it copies for
\* the snippet are one table set, the one current when the request started
\* (taken here as late as can be: when the handler first reads it).
AskUsesOneTableSet(q) ==
    /\ q.described # <<>> => q.described = q.tested
    /\ q.executed # <<>> => q.executed = q.tested

C25_AskOneTableSet ==
    \A r \in Slots :
        inflight.reqs[r].route = "/ask" => AskUsesOneTableSet(inflight.reqs[r])

====
